---- MODULE Spec2Model ----
(***************************************************************************)
(* TodayEcho: the roll command (gacha_phantom_command), the history        *)
(* command (show_gacha_history), the per-user ledger files, the roll-count *)
(* parser, the reward generator and the PhantomStat (de)serialisation of   *)
(* src/TodayEcho/todayecho_echo/__init__.py.                               *)
(*                                                                         *)
(* Text is a sequence of characters.  The module is ASCII, so the CJK      *)
(* characters of the source are written by their pinyin:                   *)
(*   ling yi er san si wu liu qi ba jiu shi = the numerals 0..10,          *)
(*   liang, lia = the two colloquial words for 2, c1..c10 = the circled    *)
(*   digits, suo ha = the trigger, ci = "times", lie biao = "list",        *)
(*   jie guo = "result".                                                   *)
(* Numbers of the stat tables are integers; the quota is an integer or     *)
(* math.inf, written as a record [inf, n].                                 *)
(***************************************************************************)
EXTENDS Integers, Sequences, FiniteSets, TLC

VARIABLES
    config,        \* the dict load_config() returns
    today,         \* the day datetime.now() falls on
    files,         \* files[u]: content of DATA_PATH/<u>.json, date -> user -> list
    pc,            \* pc[p]: where invocation p stands (its pending await)
    frame,         \* frame[p]: the local variables of invocation p
    sent,          \* sent[p]: the messages invocation p passed to bot.send
    logged,        \* logged[p]: invocation p called logger.exception
    performed,     \* performed[u]: the latest day with an accepted roll command of u,
                   \* the records of that day's accepted commands, in order, and
                   \* the days on which a roll command of u was accepted
    ev_text,       \* parser: the command text
    parsed,        \* parser: whether the text was parsed, the text after the
                   \* replacements and the roll count
    gen_config,    \* generator: the config handed to generate_phantom_stats
    gen,           \* generator: outcome of generate_phantom_stats
    dicts,         \* generator: [s.to_dict() for s in stats]
    restored       \* generator: [PhantomStat.from_dict(s) for s in dicts]

vars == <<config, today, files, pc, frame, sent, logged, performed,
          ev_text, parsed, gen_config, gen, dicts, restored>>

ledgerVars == <<config, today, files, pc, frame, sent, logged, performed>>
parseVars  == <<ev_text, parsed>>
genVars    == <<gen_config, gen, dicts, restored>>

-----------------------------------------------------------------------------
(* Generic helpers *)

Range(s) == {s[i] : i \in 1..Len(s)}

Min(a, b) == IF a <= b THEN a ELSE b

\* max() of a non-empty list
Max(s) == CHOOSE m \in Range(s) : \A x \in Range(s) : x <= m

EmptyDict == <<>>

\* dict.get(key, default)
Get(d, k, default) == IF k \in DOMAIN d THEN d[k] ELSE default

\* d[k] = v on a dict
Put(d, k, v) == [x \in (DOMAIN d) \cup {k} |-> IF x = k THEN v ELSE d[x]]

-----------------------------------------------------------------------------
(* Roll-count parser: gacha_phantom_command, lines 395-401 *)

Digits == <<"0", "1", "2", "3", "4", "5", "6", "7", "8", "9">>

IsDigit(c) == c \in Range(Digits)

DigitVal(c) == (CHOOSE i \in 1..10 : Digits[i] = c) - 1

\* str(n) for n >= 0
RECURSIVE Str(_)
Str(n) == IF n < 10 THEN <<Digits[n + 1]>> ELSE Str(n \div 10) \o <<Digits[(n % 10) + 1]>>

\* int(s) for a string of digits
RECURSIVE Int10(_)
Int10(s) == IF s = <<>> THEN 0 ELSE 10 * Int10(SubSeq(s, 1, Len(s) - 1)) + DigitVal(s[Len(s)])

\* the dict literal cn_num_map, in insertion order (the order items() iterates)
cn_num_map == <<
    <<<<"ling">>, 0>>, <<<<"yi">>, 1>>, <<<<"er">>, 2>>, <<<<"san">>, 3>>,
    <<<<"si">>, 4>>, <<<<"wu">>, 5>>, <<<<"liu">>, 6>>, <<<<"qi">>, 7>>,
    <<<<"ba">>, 8>>, <<<<"jiu">>, 9>>, <<<<"shi">>, 10>>,
    <<<<"shi", "yi">>, 11>>, <<<<"shi", "er">>, 12>>, <<<<"shi", "san">>, 13>>,
    <<<<"shi", "si">>, 14>>, <<<<"shi", "wu">>, 15>>, <<<<"shi", "liu">>, 16>>,
    <<<<"shi", "qi">>, 17>>, <<<<"shi", "ba">>, 18>>, <<<<"shi", "jiu">>, 19>>,
    <<<<"er", "shi">>, 20>>,
    <<<<"liang">>, 2>>, <<<<"lia">>, 2>>,
    <<<<"c1">>, 1>>, <<<<"c2">>, 2>>, <<<<"c3">>, 3>>, <<<<"c4">>, 4>>,
    <<<<"c5">>, 5>>, <<<<"c6">>, 6>>, <<<<"c7">>, 7>>, <<<<"c8">>, 8>>,
    <<<<"c9">>, 9>>, <<<<"c10">>, 10>> >>

StartsWith(t, key) == Len(t) >= Len(key) /\ SubSeq(t, 1, Len(key)) = key

\* str.replace(key, rep): every non-overlapping occurrence, left to right
RECURSIVE Replace(_, _, _)
Replace(t, key, rep) ==
    IF t = <<>> THEN <<>>
    ELSE IF StartsWith(t, key)
         THEN rep \o Replace(SubSeq(t, Len(key) + 1, Len(t)), key, rep)
         ELSE <<Head(t)>> \o Replace(Tail(t), key, rep)

\* for key, value in cn_num_map.items(): ev.text = ev.text.replace(key, str(value))
RECURSIVE ReplaceFrom(_, _)
ReplaceFrom(t, k) ==
    IF k > Len(cn_num_map) THEN t
    ELSE ReplaceFrom(Replace(t, cn_num_map[k][1], Str(cn_num_map[k][2])), k + 1)

ReplaceAll(t) == ReplaceFrom(t, 1)

\* the longest run of digits starting at the head of t
RECURSIVE DigitRun(_)
DigitRun(t) ==
    IF t # <<>> /\ IsDigit(Head(t)) THEN <<Head(t)>> \o DigitRun(Tail(t)) ELSE <<>>

\* re.search(r'(\d+)', t).group(1); <<>> stands for no match
RECURSIVE Search(_)
Search(t) ==
    IF t = <<>> THEN <<>>
    ELSE IF IsDigit(Head(t)) THEN DigitRun(t) ELSE Search(Tail(t))

\* match is not None
HasMatch(t) == Search(ReplaceAll(t)) # <<>>

\* roll_count = int(match.group(1)) if match and int(match.group(1)) > 0 else 1
ParseRollCount(t) ==
    LET m == Search(ReplaceAll(t))
    IN  IF m # <<>> /\ Int10(m) > 0 THEN Int10(m) ELSE 1

-----------------------------------------------------------------------------
(* PhantomStat, lines 65-83 *)

\* PhantomStat.__init__: the object, its attributes in the order of the parameters
PhantomStat(name, icon, value, is_percent, is_max) ==
    <<name, icon, value, is_percent, is_max>>

\* PhantomStat.to_dict
to_dict_swapped(s) ==
    [name |-> s[1], icon |-> s[2], value |-> s[3], is_percent |-> s[5], is_max |-> s[4]]

to_dict(s) ==
    [name |-> s[1], icon |-> s[2], value |-> s[3], is_percent |-> s[4], is_max |-> s[5]]

\* PhantomStat.from_dict: cls(**data); is_max has the default False
from_dict(data) ==
    PhantomStat(data.name, data.icon, data.value, data.is_percent,
                IF "is_max" \in DOMAIN data THEN data.is_max ELSE FALSE)

-----------------------------------------------------------------------------
(* Reward generator: generate_phantom_stats, lines 142-156 *)

\* random.sample(substats, k): k distinct positions of the table, in any order
Sample_with_replacement(n, k) == [1..k -> 1..n]

Sample(n, k) == {s \in [1..k -> 1..n] : \A i, j \in 1..k : i # j => s[i] # s[j]}

\* is_max = (value == max(stat_config["values"]))
is_max_of_first(values, value) == value = values[1]

is_max_of(values, value) == value = Max(values)

\* the stat built from one selected entry and the position random.choice picked

BuildStat(stat_config, c) ==
    LET value == stat_config.values[c]
    IN  PhantomStat(stat_config.name, stat_config.icon, value,
                    stat_config.is_percent, is_max_of(stat_config.values, value))

\* the positions random.choice can pick in the values of each selected entry
Choices(substats, sel) ==
    LET longest == IF substats = <<>> THEN 0
                   ELSE Max([i \in 1..Len(substats) |-> Len(substats[i].values)])
    IN  {c \in [1..Len(sel) -> 1..longest] :
            \A j \in 1..Len(sel) : c[j] <= Len(substats[sel[j]].values)}

NoGen == [status |-> "none", selected_configs |-> <<>>, stats |-> <<>>]

Raised == [status |-> "raised", selected_configs |-> <<>>, stats |-> <<>>]

num_to_sample(cfg) == Min(cfg.settings.stats_count, Len(cfg.substats))

\* every outcome of generate_phantom_stats(cfg): the returned list, or an
\* exception (random.sample on a negative count, random.choice and max on an
\* empty values list)
generate_phantom_stats(cfg) ==
    LET substats == cfg.substats
        k == num_to_sample(cfg)
    IN  IF k < 0 THEN {Raised}
        ELSE UNION {
            IF \E j \in 1..k : substats[sel[j]].values = <<>>
            THEN {Raised}
            ELSE {[status |-> "returned", selected_configs |-> sel,
                   stats |-> [j \in 1..k |-> BuildStat(substats[sel[j]], c[j])]] :
                      c \in Choices(substats, sel)} :
            sel \in Sample(Len(substats), k)}

-----------------------------------------------------------------------------
(* Inputs of the pure functions: a bounded set of command texts for the    *)
(* parser, a bounded set of configs for the generator and the              *)
(* (de)serialisation.                                                      *)

MaxSubstats == 3
MaxStatsCount == 3

Trigger == <<"suo", "ha">>

\* command texts: [trigger] [numeral word or digits] [ci]
ParseInputs ==
    LET words == {cn_num_map[k][1] : k \in 1..Len(cn_num_map)} \cup
                 {<<>>, <<"0">>, <<"5">>, <<"0", "3">>, <<"1", "2">>, <<"4", "ci", "7">>}
    IN  {pre \o w \o post : pre \in {<<>>, Trigger}, w \in words,
                             post \in {<<>>, <<"ci">>}}

\* stat table entries: values not in descending order, the maximum twice,
\* two entries of one name, an empty values list
StatDefs ==
    { [name |-> "atk",  icon |-> "atk",  values |-> <<3, 5>>,    is_percent |-> FALSE],
      [name |-> "atk",  icon |-> "atk",  values |-> <<7, 6, 7>>, is_percent |-> TRUE],
      [name |-> "crit", icon |-> "crit", values |-> <<>>,        is_percent |-> TRUE] }

SeqsUpTo(S, n) == UNION {[1..k -> S] : k \in 0..n}

GenConfigs ==
    {[substats |-> ss,
      settings |-> [daily_limit |-> 20, white_list |-> {}, stats_count |-> sc]] :
        ss \in SeqsUpTo(StatDefs, MaxSubstats), sc \in (-1)..MaxStatsCount}

NoList == [done |-> FALSE, list |-> <<>>]

Done(list) == [done |-> TRUE, list |-> list]

-----------------------------------------------------------------------------
(* The ledger: users, days, the quota *)

DailyLimit == 2       \* settings.daily_limit of the modelled config
MaxDay == 2           \* days the clock runs through
MaxExtra == 1         \* a roll command is accepted while the rolls performed
                      \* that day stay within DailyLimit + MaxExtra

NumProcs == 2        \* command invocations in flight at once

Procs == 1..NumProcs
\* Every user has a file, a day's entry and a quota of their own, and no
\* handler reads or writes anything of another user: one user is modelled,
\* and the white list of the config holds that user or does not.
Users == {"u1"}
WhiteLists == {{}, {"u1"}}

LedgerConfig(white_list) ==
    [substats |-> << [name |-> "atk", icon |-> "atk", values |-> <<3, 5>>,
                      is_percent |-> FALSE] >>,
     settings |-> [daily_limit |-> DailyLimit, white_list |-> white_list,
                   stats_count |-> 1]]

\* texts of the roll command: no count, digits 1..DailyLimit+1, a numeral
\* word, a text the roll handler ignores
RollTexts ==
    {<<>>, <<"er">>, <<"jie", "guo">>} \cup {Str(n) : n \in 1..(DailyLimit + 1)}

\* a quota: an integer or math.inf
Fin(n) == [inf |-> FALSE, n |-> n]
Inf == [inf |-> TRUE, n |-> 0]

\* q - k, q <= 0, k > q and q * 50 as Python computes them on int and inf
QExceeds_lenient(k, q) == ~q.inf /\ k > q.n + 1

QMinus(q, k) == IF q.inf THEN Inf ELSE Fin(q.n - k)
QNonPositive(q) == ~q.inf /\ q.n <= 0
QExceeds(k, q) == ~q.inf /\ k > q.n
QTimes(q, k) == IF q.inf THEN Inf ELSE Fin(q.n * k)

\* "key in text"
RECURSIVE Contains(_, _)
Contains(t, key) ==
    IF Len(t) < Len(key) THEN FALSE
    ELSE StartsWith(t, key) \/ Contains(Tail(t), key)

\* a message handed to bot.send: its kind, the cards of the image (stats and
\* roll number of each draw_single_result_card call) and the number printed
Msg(type, cards, shown) == [type |-> type, cards |-> cards, shown |-> shown]

\* load_records(user_id): the parsed file; a missing or unparsable file is {}
load_records(user_id) == files[user_id]

IdleFrame ==
    [kind |-> "none", user_id |-> "", limit |-> Fin(0), roll_count |-> 0,
     today_str |-> 0, records_today |-> EmptyDict, rolls_done |-> 0,
     rolls_remaining |-> Fin(0), new_stats_records |-> <<>>,
     image_objects |-> <<>>, final_tuners_remaining |-> Fin(0),
     user_daily_results |-> <<>>, tuners_remaining |-> Fin(0)]

\* the frame of an invocation that has read nothing of the ledger yet
Entered(kind, user_id, today_str) ==
    [IdleFrame EXCEPT !.kind = kind, !.user_id = user_id, !.today_str = today_str]

\* the records of the roll commands accepted for user_id on day today_str
performed_on(user_id, today_str) ==
    IF performed[user_id].today_str = today_str
    THEN performed[user_id].records ELSE <<>>

\* limit of the roll command (lines 390-392)
roll_limit(user_id) ==
    IF user_id \in config.settings.white_list THEN Inf
    ELSE Fin(config.settings.daily_limit)

\* limit of the history command (line 455)
history_limit(user_id) == Fin(config.settings.daily_limit)

\* no command has run yet: no ledger file exists, no handler is in flight
LedgerAtRest(cfg) ==
    /\ config = cfg
    /\ today = 1
    /\ files = [u \in Users |-> EmptyDict]
    /\ pc = [p \in Procs |-> "idle"]
    /\ frame = [p \in Procs |-> IdleFrame]
    /\ sent = [p \in Procs |-> <<>>]
    /\ logged = [p \in Procs |-> FALSE]
    /\ performed = [u \in Users |-> [today_str |-> 0, records |-> <<>>, days |-> {}]]

InitLedger == \E w \in WhiteLists : LedgerAtRest(LedgerConfig(w))

NotParsed == [done |-> FALSE, text |-> <<>>, roll_count |-> 0]

InitParse == ev_text = <<>> /\ parsed = NotParsed

InitGen == gen_config = LedgerConfig({}) /\ gen = NoGen /\ dicts = NoList /\ restored = NoList

-----------------------------------------------------------------------------
(* The roll command: gacha_phantom_command, lines 385-447.  The handler is *)
(* a coroutine: it runs without interruption from one await that suspends  *)
(* to the next.  RollBegin runs lines 388-419 (the help message of line    *)
(* 403 is sent before anything is read, so its await is folded in),        *)
(* RollOne is one iteration of the loop up to the await inside             *)
(* draw_single_result_card, RollSave is lines 429-433, RollReply and       *)
(* RollRenderFail are lines 436-447.                                       *)
(* get_attribute_prop, awaited at line 216 inside the loop, and            *)
(* convert_img and bot.send are coroutines of other packages: each of      *)
(* their awaits may suspend the handler and let another handler run.       *)
(* generate_phantom_stats and the request to draw are local to the         *)
(* handler, so the write of lines 429-431, which follows the last such     *)
(* await without another one, is a step of its own.                        *)

\* the card draw_single_result_card draws: the stats and the number in its title
draw_single_result_card(stats, roll_number) ==
    [stats |-> stats, roll_number |-> roll_number]

\* save_records(user_id, records): the file is rewritten with records
save_records(user_id, records) == [files EXCEPT ![user_id] = records]

\* line 409: all_records = {today_str: records_today}
OnlyToday(today_str, records_today) == Put(EmptyDict, today_str, records_today)

\* the dispatcher starts a handler; the invocations in flight are numbered
\* in the order of the free slots
FreeSlot(p) == pc[p] = "idle" /\ \A q \in Procs : q < p => pc[q] # "idle"

\* the quota check of lines 414-417: "exhausted", "insufficient" or "ok"
quota_check_one_message(count, rolls_remaining) ==
    IF QExceeds(count, rolls_remaining) THEN "insufficient" ELSE "ok"

quota_check(count, rolls_remaining) ==
    IF QNonPositive(rolls_remaining) THEN "exhausted"
    ELSE IF QExceeds(count, rolls_remaining) THEN "insufficient"
    ELSE "ok"

RollBegin(p, user_id, text) ==
    /\ FreeSlot(p)
    /\ UNCHANGED <<config, today, files, logged, performed, parseVars, genVars>>
    /\ IF Contains(text, <<"lie", "biao">>) \/ Contains(text, <<"jie", "guo">>)
       THEN /\ sent' = [sent EXCEPT ![p] = <<>>]
            /\ pc' = [pc EXCEPT ![p] = "done"]
            /\ frame' = [frame EXCEPT ![p] = Entered("ignored", user_id, today)]
       ELSE LET limit == roll_limit(user_id)
                count == ParseRollCount(text)
                all_records == load_records(user_id)
                today_str == today
                records_today == Get(all_records, today_str, EmptyDict)
                user_daily_results == Get(records_today, user_id, <<>>)
                rolls_done == Len(user_daily_results)
                rolls_remaining == QMinus(limit, rolls_done)
                verdict == quota_check(count, rolls_remaining)
            IN  /\ frame' = [frame EXCEPT ![p] =
                      [Entered("roll", user_id, today_str) EXCEPT
                          !.limit = limit,
                          !.roll_count = count,
                          !.records_today = records_today,
                          !.rolls_done = rolls_done,
                          !.rolls_remaining = rolls_remaining]]
                /\ \E help \in IF HasMatch(text) THEN {<<>>}
                               ELSE {<<>>, <<Msg("help", <<>>, Fin(0))>>} :
                     CASE verdict = "exhausted" ->
                           /\ sent' = [sent EXCEPT ![p] =
                                         help \o <<Msg("exhausted", <<>>, Fin(0))>>]
                           /\ pc' = [pc EXCEPT ![p] = "done"]
                       [] verdict = "insufficient" ->
                           /\ sent' = [sent EXCEPT ![p] =
                                         help \o <<Msg("insufficient", <<>>,
                                                       QTimes(rolls_remaining, 50))>>]
                           /\ pc' = [pc EXCEPT ![p] = "done"]
                       [] verdict = "ok" ->
                           /\ Len(performed_on(user_id, today_str)) + count
                                 <= DailyLimit + MaxExtra
                           /\ sent' = [sent EXCEPT ![p] = help]
                           /\ pc' = [pc EXCEPT ![p] = "rolling"]

\* one iteration of the loop of lines 421-426 that raises nothing
RollOne(p) ==
    /\ pc[p] = "rolling"
    /\ Len(frame[p].new_stats_records) < frame[p].roll_count
    /\ \E g \in generate_phantom_stats(config) :
         /\ g.status = "returned"
         /\ LET f == frame[p]
                i == Len(f.new_stats_records)
                record == [j \in 1..Len(g.stats) |-> to_dict(g.stats[j])]
                img == draw_single_result_card(g.stats, f.rolls_done + i + 1)
            IN  frame' = [frame EXCEPT
                            ![p].new_stats_records = Append(@, record),
                            ![p].image_objects = Append(@, img)]
    /\ UNCHANGED <<config, today, files, pc, sent, logged, performed,
                   parseVars, genVars>>

\* an iteration in which generate_phantom_stats or draw_single_result_card
\* raises: the except clause of lines 446-447
RollFail_partial(p) ==
    /\ pc[p] = "rolling"
    /\ Len(frame[p].new_stats_records) < frame[p].roll_count
    /\ LET f == frame[p]
           merged == Put(f.records_today, f.user_id,
                         Get(f.records_today, f.user_id, <<>>) \o f.new_stats_records)
       IN  files' = save_records(f.user_id, OnlyToday(f.today_str, merged))
    /\ pc' = [pc EXCEPT ![p] = "done"]
    /\ logged' = [logged EXCEPT ![p] = TRUE]
    /\ UNCHANGED <<config, today, frame, sent, performed, parseVars, genVars>>

RollFail(p) ==
    /\ pc[p] = "rolling"
    /\ Len(frame[p].new_stats_records) < frame[p].roll_count
    /\ pc' = [pc EXCEPT ![p] = "done"]
    /\ UNCHANGED frame
    /\ logged' = [logged EXCEPT ![p] = TRUE]
    /\ UNCHANGED <<config, today, files, sent, performed, parseVars, genVars>>

\* lines 429-433: merge the batch into today's entry and rewrite the file
RollSave_keep_all(p) ==
    /\ pc[p] = "rolling"
    /\ Len(frame[p].new_stats_records) = frame[p].roll_count
    /\ LET f == frame[p]
           merged == Put(f.records_today, f.user_id,
                         Get(f.records_today, f.user_id, <<>>) \o f.new_stats_records)
           all_records == Put(load_records(f.user_id), f.today_str, merged)
       IN  /\ files' = save_records(f.user_id, all_records)
           /\ frame' = [frame EXCEPT
                          ![p].records_today = merged,
                          ![p].final_tuners_remaining =
                              QMinus(f.rolls_remaining, f.roll_count)]
           /\ performed' = [performed EXCEPT ![f.user_id] =
                  [today_str |-> f.today_str,
                   records |-> performed_on(f.user_id, f.today_str)
                                   \o f.new_stats_records,
                   days |-> performed[f.user_id].days \cup {f.today_str}]]
    /\ pc' = [pc EXCEPT ![p] = "render"]
    /\ UNCHANGED <<config, today, sent, logged, parseVars, genVars>>

RollSave(p) ==
    /\ pc[p] = "rolling"
    /\ Len(frame[p].new_stats_records) = frame[p].roll_count
    /\ LET f == frame[p]
           merged == Put(f.records_today, f.user_id,
                         Get(f.records_today, f.user_id, <<>>) \o f.new_stats_records)
           all_records == Put(OnlyToday(f.today_str, f.records_today),
                              f.today_str, merged)
       IN  /\ files' = save_records(f.user_id, all_records)
           /\ frame' = [frame EXCEPT
                          ![p].records_today = merged,
                          ![p].final_tuners_remaining =
                              QMinus(f.rolls_remaining, f.roll_count)]
           /\ performed' = [performed EXCEPT ![f.user_id] =
                  [today_str |-> f.today_str,
                   records |-> performed_on(f.user_id, f.today_str)
                                   \o f.new_stats_records,
                   days |-> performed[f.user_id].days \cup {f.today_str}]]
    /\ pc' = [pc EXCEPT ![p] = "render"]
    /\ UNCHANGED <<config, today, sent, logged, parseVars, genVars>>

\* lines 436-445: the image of the batch is sent
RollReply(p) ==
    /\ pc[p] = "render"
    /\ sent' = [sent EXCEPT ![p] =
                  Append(@, Msg("image", frame[p].image_objects,
                                QTimes(frame[p].final_tuners_remaining, 50)))]
    /\ pc' = [pc EXCEPT ![p] = "done"]
    /\ UNCHANGED frame
    /\ UNCHANGED <<config, today, files, logged, performed, parseVars, genVars>>

\* composing, converting or sending the image raises: lines 446-447
RollRenderFail(p) ==
    /\ pc[p] = "render"
    /\ pc' = [pc EXCEPT ![p] = "done"]
    /\ UNCHANGED frame
    /\ logged' = [logged EXCEPT ![p] = TRUE]
    /\ UNCHANGED <<config, today, files, sent, performed, parseVars, genVars>>

-----------------------------------------------------------------------------
(* The history command: show_gacha_history, lines 450-482 *)

\* lines 465-469: one card per stored record, numbered from 1
history_cards_from_zero(user_daily_results) ==
    [i \in 1..Len(user_daily_results) |->
        draw_single_result_card(
            [j \in 1..Len(user_daily_results[i]) |->
                from_dict(user_daily_results[i][j])],
            i - 1)]

history_cards(user_daily_results) ==
    [i \in 1..Len(user_daily_results) |->
        draw_single_result_card(
            [j \in 1..Len(user_daily_results[i]) |->
                from_dict(user_daily_results[i][j])],
            i)]

HistBegin(p, user_id) ==
    /\ FreeSlot(p)
    /\ UNCHANGED <<config, today, files, logged, performed, parseVars, genVars>>
    /\ LET limit == history_limit(user_id)
           all_records == load_records(user_id)
           today_str == today
           user_daily_results ==
               Get(Get(all_records, today_str, EmptyDict), user_id, <<>>)
       IN  IF user_daily_results = <<>>
           THEN /\ sent' = [sent EXCEPT ![p] = <<Msg("no_history", <<>>, Fin(0))>>]
                /\ pc' = [pc EXCEPT ![p] = "done"]
                /\ frame' = [frame EXCEPT ![p] =
                               Entered("history", user_id, today_str)]
           ELSE /\ sent' = [sent EXCEPT ![p] = <<>>]
                /\ pc' = [pc EXCEPT ![p] = "replay"]
                /\ frame' = [frame EXCEPT ![p] =
                      [IdleFrame EXCEPT !.kind = "history",
                                        !.user_id = user_id,
                                        !.limit = limit,
                                        !.today_str = today_str,
                                        !.user_daily_results = user_daily_results]]

\* lines 465-480: the cards are drawn and the image is sent
HistReply(p) ==
    /\ pc[p] = "replay"
    /\ LET f == frame[p]
           tuners_remaining == QMinus(f.limit, Len(f.user_daily_results))
       IN  /\ sent' = [sent EXCEPT ![p] =
                         <<Msg("image", history_cards(f.user_daily_results),
                               QTimes(tuners_remaining, 50))>>]
           /\ frame' = [frame EXCEPT ![p].tuners_remaining = tuners_remaining]
    /\ pc' = [pc EXCEPT ![p] = "done"]
    /\ UNCHANGED <<config, today, files, logged, performed, parseVars, genVars>>

\* drawing, converting or sending raises: lines 481-482
HistFail(p) ==
    /\ pc[p] = "replay"
    /\ pc' = [pc EXCEPT ![p] = "done"]
    /\ UNCHANGED frame
    /\ logged' = [logged EXCEPT ![p] = TRUE]
    /\ UNCHANGED <<config, today, files, sent, performed, parseVars, genVars>>

\* the handler has returned: its frame is gone and the slot is free again
Return(p) ==
    /\ pc[p] = "done"
    /\ pc' = [pc EXCEPT ![p] = "idle"]
    /\ frame' = [frame EXCEPT ![p] = IdleFrame]
    /\ sent' = [sent EXCEPT ![p] = <<>>]
    /\ logged' = [logged EXCEPT ![p] = FALSE]
    /\ UNCHANGED <<config, today, files, performed, parseVars, genVars>>

\* the clock passes midnight
Midnight ==
    /\ today < MaxDay
    /\ today' = today + 1
    /\ UNCHANGED <<config, files, pc, frame, sent, logged, performed,
                   parseVars, genVars>>

-----------------------------------------------------------------------------
(* Specifications *)

Init == InitLedger /\ InitParse /\ InitGen

\* the commands of one day run concurrently, interleaved at their awaits
Next ==
    \/ \E p \in Procs, u \in Users, t \in RollTexts : RollBegin(p, u, t)
    \/ \E p \in Procs : RollOne(p)
    \/ \E p \in Procs : RollFail(p)
    \/ \E p \in Procs : RollSave(p)
    \/ \E p \in Procs : RollReply(p)
    \/ \E p \in Procs : RollRenderFail(p)
    \/ \E p \in Procs, u \in Users : HistBegin(p, u)
    \/ \E p \in Procs : HistReply(p)
    \/ \E p \in Procs : HistFail(p)
    \/ \E p \in Procs : Return(p)

Spec == Init /\ [][Next]_vars

\* the commands of several days run one at a time: a command begins when no
\* other is in flight
AllIdle == \A p \in Procs : pc[p] = "idle"

SeqNext ==
    \/ \E p \in Procs, u \in Users, t \in RollTexts : AllIdle /\ RollBegin(p, u, t)
    \/ \E p \in Procs : RollOne(p)
    \/ \E p \in Procs : RollFail(p)
    \/ \E p \in Procs : RollSave(p)
    \/ \E p \in Procs : RollReply(p)
    \/ \E p \in Procs : RollRenderFail(p)
    \/ \E p \in Procs, u \in Users : AllIdle /\ HistBegin(p, u)
    \/ \E p \in Procs : HistReply(p)
    \/ \E p \in Procs : HistFail(p)
    \/ \E p \in Procs : Return(p)
    \/ Midnight

SeqSpec == Init /\ [][SeqNext]_vars

-----------------------------------------------------------------------------
(* The parser on its own: lines 395-401 applied to a command text *)

ParseText ==
    /\ ~parsed.done
    /\ parsed' = [done |-> TRUE, text |-> ReplaceAll(ev_text),
                  roll_count |-> ParseRollCount(ev_text)]
    /\ UNCHANGED <<ev_text, ledgerVars, genVars>>

ParseInit ==
    /\ LedgerAtRest(LedgerConfig({}))
    /\ InitGen
    /\ ev_text \in ParseInputs
    /\ parsed = NotParsed

ParseNext == ParseText

ParseSpec == ParseInit /\ [][ParseNext]_vars

-----------------------------------------------------------------------------
(* The generator and the (de)serialisation on their own: one roll of lines *)
(* 422-423 and its replay of line 467                                      *)

Generate ==
    /\ gen = NoGen
    /\ gen' \in generate_phantom_stats(gen_config)
    /\ UNCHANGED <<gen_config, dicts, restored, ledgerVars, parseVars>>

\* line 423: [s.to_dict() for s in stats]
Serialize ==
    /\ gen.status = "returned"
    /\ ~dicts.done
    /\ dicts' = Done([j \in 1..Len(gen.stats) |-> to_dict(gen.stats[j])])
    /\ UNCHANGED <<gen_config, gen, restored, ledgerVars, parseVars>>

\* line 467: [PhantomStat.from_dict(s) for s in result_data]
Deserialize ==
    /\ dicts.done
    /\ ~restored.done
    /\ restored' = Done([j \in 1..Len(dicts.list) |-> from_dict(dicts.list[j])])
    /\ UNCHANGED <<gen_config, gen, dicts, ledgerVars, parseVars>>

GenInit ==
    /\ LedgerAtRest(LedgerConfig({}))
    /\ InitParse
    /\ gen_config \in GenConfigs
    /\ gen = NoGen
    /\ dicts = NoList
    /\ restored = NoList

GenNext == Generate \/ Serialize \/ Deserialize

GenSpec == GenInit /\ [][GenNext]_vars

-----------------------------------------------------------------------------
(* Claims about the ledger (SeqSpec: one command at a time; Spec:          *)
(* concurrent commands)                                                    *)

\* the RollRecords stored for user_id under the date key today_str
stored(user_id, today_str) ==
    Get(Get(files[user_id], today_str, EmptyDict), user_id, <<>>)

\* the last message invocation p sent
LastMsg(p) == sent[p][Len(sent[p])]

NotWhitelisted(user_id) == user_id \notin config.settings.white_list

\* C1: with the commands run one at a time, the records stored for a user who
\* is not whitelisted never exceed daily_limit under any date key.
C1_WithinDailyLimit ==
    \A u \in Users :
        NotWhitelisted(u) =>
            \A d \in DOMAIN files[u] : Len(stored(u, d)) <= config.settings.daily_limit

\* C1 witness: the limit is reached and a further roll command was turned away
C1_Witness ==
    \E p \in Procs :
        /\ pc[p] = "done"
        /\ frame[p].kind = "roll"
        /\ NotWhitelisted(frame[p].user_id)
        /\ Len(stored(frame[p].user_id, frame[p].today_str)) = config.settings.daily_limit
        /\ sent[p] # <<>>
        /\ LastMsg(p).type = "exhausted"

\* invocation p runs the roll command up to its quota check in this step
C2_Checked(p) == pc[p] = "idle" /\ pc'[p] # "idle" /\ frame'[p].kind = "roll"

\* the outcome the claim gives a roll command of a user who is not whitelisted:
\* with remaining = daily_limit - rolls stored today, a request above remaining
\* (or any request when remaining <= 0) ends the invocation, writes nothing
\* and sends "exhausted" when remaining <= 0, else "insufficient" with the
\* number factor * remaining
C2_Rejected(p, factor) ==
    LET f == frame'[p]
        remaining == config.settings.daily_limit - Len(stored(f.user_id, today))
    IN  (NotWhitelisted(f.user_id) /\ (remaining <= 0 \/ f.roll_count > remaining)) =>
            /\ pc'[p] = "done"
            /\ files' = files
            /\ performed' = performed
            /\ sent'[p] # <<>>
            /\ LET m == sent'[p][Len(sent'[p])]
               IN  IF remaining <= 0 THEN m.type = "exhausted"
                   ELSE m.type = "insufficient" /\ m.shown = Fin(factor * remaining)

\* C2 as claimed: a roll command asking for more than the remaining quota is
\* rejected, leaves the ledger unchanged and reports "exhausted" or, with the
\* remaining amount, "insufficient".
C2_RejectionReportsRemaining ==
    [][\A p \in Procs : C2_Checked(p) => C2_Rejected(p, 1)]_vars

\* C2 as amended: the same, but the number the "insufficient" message reports
\* is 50 times the remaining quota.
C2_RejectionLeavesLedger ==
    [][\A p \in Procs : C2_Checked(p) => C2_Rejected(p, 50)]_vars

\* C2 witness: no roll today, daily_limit + 1 rolls asked for and turned away
C2_Witness ==
    \E p \in Procs :
        /\ pc[p] = "done"
        /\ frame[p].kind = "roll"
        /\ NotWhitelisted(frame[p].user_id)
        /\ frame[p].rolls_done = 0
        /\ frame[p].roll_count = config.settings.daily_limit + 1
        /\ sent[p] # <<>>
        /\ LastMsg(p).type = "insufficient"
        /\ stored(frame[p].user_id, frame[p].today_str) = <<>>

\* C3: no two roll commands of one user who is not whitelisted are at once
\* between their quota check and their ledger write, and the records stored
\* for such a user never exceed daily_limit.
C3_QuotaCheckSerialized ==
    /\ \A p, q \in Procs :
          (p # q /\ pc[p] = "rolling" /\ pc[q] = "rolling"
               /\ frame[p].user_id = frame[q].user_id)
              => ~NotWhitelisted(frame[p].user_id)
    /\ C1_WithinDailyLimit

\* C4: with the commands run one at a time, a history command that replies
\* shows the records of the roll commands accepted for the user that day:
\* all of them, in the order they were generated, numbered 1..N; without any
\* it answers that nothing was rolled.
C4_HistoryReplays ==
    \A p \in Procs :
        (pc[p] = "done" /\ frame[p].kind = "history" /\ ~logged[p]) =>
            LET recs == performed_on(frame[p].user_id, frame[p].today_str)
                m == LastMsg(p)
            IN  /\ sent[p] # <<>>
                /\ IF recs = <<>> THEN m.type = "no_history"
                   ELSE /\ m.type = "image"
                        /\ Len(m.cards) = Len(recs)
                        /\ \A i \in 1..Len(recs) :
                              /\ m.cards[i].roll_number = i
                              /\ Len(m.cards[i].stats) = Len(recs[i])
                              /\ \A j \in 1..Len(recs[i]) :
                                    /\ m.cards[i].stats[j][1] = recs[i][j].name
                                    /\ m.cards[i].stats[j][2] = recs[i][j].icon
                                    /\ m.cards[i].stats[j][3] = recs[i][j].value
                                    /\ m.cards[i].stats[j][4] = recs[i][j].is_percent
                                    /\ m.cards[i].stats[j][5] = recs[i][j].is_max

\* C4 witness: on the second day a history shows two or more different rolls
C4_Witness ==
    \E p \in Procs :
        /\ pc[p] = "done"
        /\ frame[p].kind = "history"
        /\ frame[p].today_str = 2
        /\ sent[p] # <<>>
        /\ LastMsg(p).type = "image"
        /\ Len(LastMsg(p).cards) >= 2
        /\ LastMsg(p).cards[1].stats # LastMsg(p).cards[2].stats

\* C5: for a whitelisted user no roll command is turned away, and the
\* remaining quota the roll command and the history command compute and show
\* is unbounded.
C5_WhitelistedUnbounded ==
    \A p \in Procs :
        (frame[p].kind \in {"roll", "history"} /\ ~NotWhitelisted(frame[p].user_id)) =>
            /\ frame[p].kind = "roll" =>
                  /\ frame[p].rolls_remaining.inf
                  /\ pc[p] \in {"rolling", "render"} \/ logged[p] \/
                         (sent[p] # <<>> /\ LastMsg(p).type = "image")
                  /\ pc[p] = "render" => frame[p].final_tuners_remaining.inf
            /\ (pc[p] = "done" /\ sent[p] # <<>> /\ LastMsg(p).type = "image") =>
                  LastMsg(p).shown.inf
            /\ (frame[p].kind = "history" /\ pc[p] = "done" /\ ~logged[p]
                    /\ LastMsg(p).type = "image") =>
                  frame[p].tuners_remaining.inf

\* C6: a roll command that leaves its loop before all its rolls are generated
\* ends with the exception logged and with the ledger files as they were, and
\* the files are written only by a roll command whose rolls are all generated.
C6_NoPartialWrite ==
    [][/\ \A p \in Procs :
            (pc[p] = "rolling" /\ pc'[p] # "rolling"
                 /\ Len(frame[p].new_stats_records) < frame[p].roll_count)
                => (pc'[p] = "done" /\ logged'[p] /\ files' = files
                        /\ sent'[p] = sent[p])
       /\ files' # files =>
            \E p \in Procs :
                /\ pc[p] = "rolling" /\ pc'[p] = "render"
                /\ Len(frame[p].new_stats_records) = frame[p].roll_count]_vars

\* C6 witness: a roll command failed after one or more rolls of its batch, and
\* the user's entry in the file is the one the command loaded
C6_Witness ==
    \E p \in Procs :
        /\ pc[p] = "done"
        /\ logged[p]
        /\ frame[p].kind = "roll"
        /\ Len(frame[p].new_stats_records) >= 1
        /\ Len(frame[p].new_stats_records) < frame[p].roll_count
        /\ stored(frame[p].user_id, frame[p].today_str)
              = Get(frame[p].records_today, frame[p].user_id, <<>>)

\* invocation p writes the ledger file in this step
C11_Saved(p) == pc[p] = "rolling" /\ pc'[p] = "render"

\* what every write of an accepted roll command does to today's entry and to
\* the other users: the user's records of today are the ones stored before
\* followed by the new ones, the entries of other users under today's key and
\* the files of other users are as before
C11_TodayAppended(p) ==
    LET f == frame[p]
        u == f.user_id
        d == f.today_str
    IN  /\ d \in DOMAIN files'[u]
        /\ u \in DOMAIN files'[u][d]
        /\ files'[u][d][u] = stored(u, d) \o f.new_stats_records
        /\ \A v \in DOMAIN Get(files[u], d, EmptyDict) :
              v # u => (v \in DOMAIN files'[u][d] /\ files'[u][d][v] = files[u][d][v])
        /\ \A v \in Users : v # u => files'[v] = files[v]

\* C11 as claimed: the write of an accepted roll command changes only the
\* user's entry of today, and every entry under another date key of the file
\* is still there, unchanged.
C11_OtherDaysKept ==
    [][\A p \in Procs : C11_Saved(p) =>
          /\ C11_TodayAppended(p)
          /\ \A d \in DOMAIN files[frame[p].user_id] :
                d # frame[p].today_str =>
                    /\ d \in DOMAIN files'[frame[p].user_id]
                    /\ files'[frame[p].user_id][d] = files[frame[p].user_id][d]]_vars

\* C11 as amended: the write of an accepted roll command appends the new
\* records to the user's entry of today and leaves today's key as the only
\* date key of the file: the entries under other date keys are dropped.
C11_OnlyTodayKept ==
    [][\A p \in Procs : C11_Saved(p) =>
          /\ C11_TodayAppended(p)
          /\ DOMAIN files'[frame[p].user_id] = {frame[p].today_str}]_vars

\* C11 witness: a roll command of the second day has written the file of a
\* user who had rolled on the first day, and the file holds the second day only
C11_Witness ==
    \E p \in Procs :
        /\ pc[p] = "render"
        /\ frame[p].today_str = 2
        /\ 1 \in performed[frame[p].user_id].days
        /\ DOMAIN files[frame[p].user_id] = {2}
        /\ stored(frame[p].user_id, 2) # <<>>

\* C12: the ledger holds the records of every accepted roll command of the
\* user's day, those of two commands that ran concurrently included: no write
\* of one command removes the records another command wrote.
C12_NoLostUpdate ==
    \A u \in Users :
        performed[u].today_str # 0 =>
            stored(u, performed[u].today_str) = performed[u].records

-----------------------------------------------------------------------------
(* Claims about the parser (ParseSpec) *)

\* the characters of a text that the parser turns into digits or reads as digits
HasNumber(t) ==
    \E i \in 1..Len(t) :
        IsDigit(t[i]) \/ \E k \in 1..Len(cn_num_map) : t[i] \in Range(cn_num_map[k][1])

\* C7: the parsed count of "<trigger><numeral word>ci" is the value the lookup
\* table gives the word, for every word of the table with a positive value,
\* and the count of a text without any number is 1.
C7_NumeralWordsParsed ==
    parsed.done =>
        /\ \A k \in 1..Len(cn_num_map) :
              (ev_text = Trigger \o cn_num_map[k][1] \o <<"ci">> /\ cn_num_map[k][2] > 0)
                  => parsed.roll_count = cn_num_map[k][2]
        /\ ~HasNumber(ev_text) => parsed.roll_count = 1

-----------------------------------------------------------------------------
(* Claims about the generator and the (de)serialisation (GenSpec) *)

\* C8: a returned roll holds exactly min(stats_count, len(substats)) stats,
\* each built from one entry of the table, and no entry (position of the
\* table) is chosen twice.
C8_SampleSizeAndDistinct ==
    gen.status = "returned" =>
        LET substats == gen_config.substats
            stats_count == gen_config.settings.stats_count
            sel == gen.selected_configs
        IN  /\ Len(gen.stats) = IF stats_count <= Len(substats)
                                THEN stats_count ELSE Len(substats)
            /\ Len(sel) = Len(gen.stats)
            /\ \A j \in 1..Len(sel) : sel[j] \in 1..Len(substats)
            /\ \A i, j \in 1..Len(sel) : i # j => sel[i] # sel[j]
            /\ \A j \in 1..Len(sel) :
                  /\ gen.stats[j][1] = substats[sel[j]].name
                  /\ gen.stats[j][2] = substats[sel[j]].icon
                  /\ gen.stats[j][4] = substats[sel[j]].is_percent

\* C8 witness: a table of two entries and stats_count 3: both entries are taken
C8_Witness ==
    /\ gen.status = "returned"
    /\ Len(gen_config.substats) = 2
    /\ gen_config.settings.stats_count = 3
    /\ Len(gen.stats) = 2

\* C9: the value of every returned stat is one of the values of its entry, and
\* is_max holds exactly when no value of the entry is greater.
C9_ValueAndIsMax ==
    gen.status = "returned" =>
        \A j \in 1..Len(gen.stats) :
            LET values == gen_config.substats[gen.selected_configs[j]].values
                value == gen.stats[j][3]
            IN  /\ \E c \in 1..Len(values) : values[c] = value
                /\ gen.stats[j][5] <=> (\A c \in 1..Len(values) : values[c] <= value)

\* C9 witness: a roll with a stat at its maximum, which is not the first of the
\* values, and a stat below its maximum
C9_Witness ==
    /\ gen.status = "returned"
    /\ \E i, j \in 1..Len(gen.stats) :
          /\ gen.stats[i][5]
          /\ gen.stats[i][3] # gen_config.substats[gen.selected_configs[i]].values[1]
          /\ ~gen.stats[j][5]

\* C10: the stats rebuilt by from_dict from the to_dict of a roll are the stats
\* of the roll: as many, in the same order, with the same name, icon, value,
\* is_percent and is_max.
C10_RoundTrip ==
    restored.done =>
        /\ Len(restored.list) = Len(gen.stats)
        /\ \A j \in 1..Len(gen.stats) : \A a \in 1..5 :
              restored.list[j][a] = gen.stats[j][a]

\* C10 witness: a rebuilt roll of two different stats, one of them with
\* is_percent and is_max different
C10_Witness ==
    /\ restored.done
    /\ Len(restored.list) >= 2
    /\ restored.list[1] # restored.list[2]
    /\ \E j \in 1..Len(restored.list) : restored.list[j][4] # restored.list[j][5]

====
